---- MODULE Spec2Model ----
(***************************************************************************)
(* The matching and ranking pipeline of the trial-matching backend:        *)
(*   llm_service.py      evaluate_eligibility, batch_evaluate_eligibility  *)
(*   ct_service.py       search_trials, match_patient_to_trials            *)
(*   matching_engine.py  find_nearest_site, match_patient_to_trial(s)      *)
(* and, each under a specification of its own, the profile extractors      *)
(*   llm_service.py      extract_patient_profile,                          *)
(*                       extract_profile_from_image                        *)
(* and the ambient signal scanner                                          *)
(*   clinical_radar_service.py  perform_ambient_search                     *)
(* and the stores                                                          *)
(*   clinical_radar_service.py  save_alerts, get_alerts,                   *)
(*                              mark_alerts_as_read                        *)
(*   main.py             save_patient, update_patient_trials,              *)
(*                       delete_patient, update_patient_profile,           *)
(*                       get_patient_trials, get_chart_data, get_trial     *)
(*   ingestion.py        ingest_trials, create_sample_trials               *)
(*                                                                         *)
(* Python values are encoded so that TLC never compares values of          *)
(* different kinds:                                                        *)
(*   - an optional value (None, or a dict key the oracle omitted) is the   *)
(*     empty tuple <<>>, a present value v is <<v>>;                       *)
(*   - a JSON value is a record [type, items, obj];                        *)
(*   - an oracle text is a sequence of tokens [t, v].                      *)
(* Distances are whole numbers on a small coordinate grid.                 *)
(***************************************************************************)
EXTENDS Integers, Sequences, FiniteSets, TLC

\* ------------------------------------------------------------------ bounds

\* studies one registry response holds (ClinicalTrialsService pipeline)
MaxStudies == 2
\* trials handed to MatchingEngine.match_patient_to_trials
MaxTrials == 3
\* candidate sites of one trial
MaxSites == 2
\* max_results when the caller gives none
DefaultMaxResults == 10

\* ------------------------------------------------------- optional values

None == <<>>

Some(v) == <<v>>

\* Python truthiness of an optional number: None and 0 are falsy.
Truthy(x) == x # None /\ x[1] # 0

\* dict.get(key, default) on a key encoded as an optional value
Get(x, default) == IF x = None THEN default ELSE x[1]

\* ---------------------------------------------------------------- JSON

\* An evaluation object: every key optional.
Dict(id, score, cat, meets, fails, missing, expl) ==
    [nct_id |-> id, fit_score |-> score, fit_category |-> cat,
     meets_criteria |-> meets, fails_criteria |-> fails,
     missing_info |-> missing, explanation |-> expl]

EmptyDict == Dict(None, None, None, None, None, None, None)

DictKeys == {"nct_id", "fit_score", "fit_category", "meets_criteria",
             "fails_criteria", "missing_info", "explanation"}

JArray(items) == [type |-> "array", items |-> items, obj |-> EmptyDict]

JObject(o) == [type |-> "object", items |-> <<>>, obj |-> o]

JNumber == [type |-> "number", items |-> <<>>, obj |-> EmptyDict]

\* ---------------------------------------------------------- oracle text

\* the opening fence with its json tag, and the bare three-backtick fence
FenceJson == [t |-> "fence_json", v |-> JNumber]

Fence == [t |-> "fence", v |-> JNumber]

Junk == [t |-> "junk", v |-> JNumber]

Value(j) == [t |-> "value", v |-> j]

StartsWith(text, tok) == Len(text) > 0 /\ text[1].t = tok.t

EndsWith(text, tok) == Len(text) > 0 /\ text[Len(text)].t = tok.t

\* The three fence tests every oracle call site applies, in order.
StripFences(text) ==
    LET t1 == IF StartsWith(text, FenceJson) THEN Tail(text) ELSE text
        t2 == IF StartsWith(t1, Fence) THEN Tail(t1) ELSE t1
        t3 == IF EndsWith(t2, Fence) THEN SubSeq(t2, 1, Len(t2) - 1) ELSE t2
    IN t3

\* json.loads: the text must be exactly one JSON value.
JsonValid(text) == Len(text) = 1 /\ text[1].t = "value"

\* What model.generate_content produced: it raised, or it returned a text.
Reply(raised, text) == [raised |-> raised, text |-> text]

\* The outcome of the try block up to and including json.loads.
ParseReply(reply) ==
    IF reply.raised THEN [status |-> "raised", json |-> JNumber]
    ELSE IF ~JsonValid(StripFences(reply.text))
         THEN [status |-> "invalid", json |-> JNumber]
         ELSE [status |-> "json", json |-> StripFences(reply.text)[1].v]

NoOracle == [status |-> "none", json |-> JNumber]

\* The texts the oracle may return around a body token.
Wrappings(body) ==
    { pre \o <<body>> \o post :
        pre \in {<<>>, <<FenceJson>>, <<Fence>>, <<Fence, Junk>>},
        post \in {<<>>, <<Fence>>} }

Replies(values) ==
    {Reply(TRUE, <<>>), Reply(FALSE, <<>>)}
      \cup { Reply(FALSE, text) :
               text \in UNION { Wrappings(b) : b \in {Junk} \cup { Value(j) : j \in values } } }

\* ------------------------------------------------- eligibility evaluator

\* len(x) of a parsed JSON value; a number has no len().
HasLen(j) == j.type \in {"array", "object"}

PyLen(j) ==
    IF j.type = "array" THEN Len(j.items)
    ELSE Cardinality({k \in DictKeys : j.obj[k] # None})

\* the single failure written with the batch path's placeholder score
SingleFailureScore40 ==
    Dict(None, Some(40), Some("weak"), Some(<<>>), Some(<<>>),
         Some(<<"Unable to evaluate - system error">>),
         Some("Error occurred during evaluation. Please review manually."))

\* evaluate_eligibility's except branch
SingleFailure ==
    Dict(None, Some(30), Some("weak"), Some(<<>>), Some(<<>>),
         Some(<<"Unable to evaluate - system error">>),
         Some("Error occurred during evaluation. Please review manually."))

\* the evaluation batch_evaluate_eligibility appends for a missing entry
PadEvaluation(trial) ==
    Dict(Some(trial.nct_id), Some(40), Some("weak"), Some(<<>>), Some(<<>>),
         Some(<<"Evaluation not completed">>),
         Some("Trial needs manual review."))

\* the except branch reusing the padding evaluation
BatchFailureAsPad(trial) == PadEvaluation(trial)

\* batch_evaluate_eligibility's except branch, per trial
BatchFailure(trial) ==
    Dict(Some(trial.nct_id), Some(40), Some("weak"), Some(<<>>), Some(<<>>),
         Some(<<"Batch evaluation failed">>),
         Some("Could not evaluate. Please review manually."))

\* evaluate_eligibility: whatever json.loads returned, or the fixed failure.
EvaluateEligibility(reply) ==
    LET p == ParseReply(reply)
    IN IF p.status = "json" THEN p.json ELSE JObject(SingleFailure)

\* the padding loop indexing the trials from 0 instead of len(evaluations)
PadFromFirstTrial(items, trials) ==
    items \o [i \in 1..(Len(trials) - Len(items)) |-> PadEvaluation(trials[i])]

\* the padding loop: range(len(evaluations), len(trials))
Pad(items, trials) ==
    items \o [i \in 1..(Len(trials) - Len(items)) |->
                PadEvaluation(trials[Len(items) + i])]

AllFailed(trials) == JArray([i \in 1..Len(trials) |-> BatchFailure(trials[i])])

\* batch_evaluate_eligibility: len() of a number and append() on an object
\* raise inside the try block and end in the except branch.
BatchEvaluateEligibility(trials, reply) ==
    LET p == ParseReply(reply)
    IN IF p.status # "json" \/ ~HasLen(p.json) THEN AllFailed(trials)
       ELSE IF PyLen(p.json) >= Len(trials) THEN p.json
       ELSE IF p.json.type = "array" THEN JArray(Pad(p.json.items, trials))
       ELSE AllFailed(trials)

\* ------------------------------------------------------ nearest trial site

\* latitudes and longitudes of the grid
Coords == {0, 1, 2}

OptCoords == {None} \cup { Some(c) : c \in Coords }

\* a Location: facility stands for all the fields that name the site
Loc(facility, lat, lng) == [facility |-> facility, lat |-> lat, lng |-> lng]

Abs(n) == IF n < 0 THEN 0 - n ELSE n

\* geodesic(a, b).kilometers on the grid: 0 exactly when a = b
Geodesic(a, b) == Abs(a[1] - b[1]) + Abs(a[2] - b[2])

\* calculate_distance; patient_location is an optional coordinate pair
CalculateDistance(patient_location, trial_location) ==
    IF patient_location = None THEN None
    ELSE Some(Geodesic(patient_location[1], trial_location))

NotFound == [site |-> None, distance |-> None]

\* one iteration of find_nearest_site's loop; acc.distance = None is float('inf')
ScanStep(patient_location, location, acc) ==
    IF Truthy(location.lat) /\ Truthy(location.lng)
    THEN LET distance == CalculateDistance(patient_location,
                                           <<location.lat[1], location.lng[1]>>)
         IN IF Truthy(distance)
               /\ (acc.distance = None \/ distance[1] < acc.distance[1])
            THEN [site |-> Some(location), distance |-> distance]
            ELSE acc
    ELSE acc

RECURSIVE ScanSites(_, _, _)
ScanSites(patient_location, locations, acc) ==
    IF locations = <<>> THEN acc
    ELSE ScanSites(patient_location, Tail(locations),
                   ScanStep(patient_location, Head(locations), acc))

\* find_nearest_site
FindNearestSite(patient_location, trial_locations) ==
    IF patient_location = None \/ trial_locations = <<>> THEN NotFound
    ELSE ScanSites(patient_location, trial_locations, NotFound)

\* match_patient_to_trial's patient_coords; patient is an optional location
PatientCoords(patient) ==
    IF patient # None /\ Truthy(patient[1].lat) /\ Truthy(patient[1].lng)
    THEN Some(<<patient[1].lat[1], patient[1].lng[1]>>)
    ELSE None

\* --------------------------------------------------------------- matches

\* A TrialMatch; pos is the trial's place in the input list.
TrialMatch(pos, nct_id, score, cat, distance, meets, fails, missing) ==
    [pos |-> pos, nct_id |-> nct_id, fit_score |-> score, fit_category |-> cat,
     distance_km |-> distance, meets_criteria |-> meets,
     fails_criteria |-> fails, missing_info |-> missing]

\* MatchingEngine.match_patient_to_trial's TrialMatch(...) call
EngineMatch(pos, trial, evaluation, distance) ==
    TrialMatch(pos, trial.nct_id,
               Get(evaluation.fit_score, 0), Get(evaluation.fit_category, "weak"),
               distance,
               Get(evaluation.meets_criteria, <<>>),
               Get(evaluation.fails_criteria, <<>>),
               Get(evaluation.missing_info, <<>>))

\* the evaluation ClinicalTrialsService uses past the end of the list
NotEvaluated ==
    Dict(None, Some(40), Some("weak"), Some(<<>>), Some(<<>>),
         Some(<<"Not evaluated">>), Some("Trial needs manual review."))

\* evaluations[i] raises on an object (KeyError) at every index below its len()
CtLookupFails(evaluations, i) ==
    evaluations.type # "array" /\ i <= PyLen(evaluations)

CtEvaluationAt(evaluations, i) ==
    IF i <= PyLen(evaluations) THEN evaluations.items[i] ELSE NotEvaluated

\* ClinicalTrialsService.match_patient_to_trials' TrialMatch(...) call
CtMatch(pos, trial, evaluation) ==
    TrialMatch(pos, trial.nct_id,
               Get(evaluation.fit_score, 40), Get(evaluation.fit_category, "weak"),
               None,
               Get(evaluation.meets_criteria, <<>>),
               Get(evaluation.fails_criteria, <<>>),
               Get(evaluation.missing_info, <<>>))

\* the loop over enumerate(trials): a trial whose body raises is skipped
RECURSIVE CtMatches(_, _, _)
CtMatches(trials, evaluations, i) ==
    IF i > Len(trials) THEN <<>>
    ELSE (IF CtLookupFails(evaluations, i) THEN <<>>
          ELSE <<CtMatch(i, trials[i], CtEvaluationAt(evaluations, i))>>)
         \o CtMatches(trials, evaluations, i + 1)

\* --------------------------------------------------------------- ranking

\* m.distance_km if m.distance_km else float('inf'), compared
DistanceKeyLess(x, y) == Truthy(x) /\ (~Truthy(y) \/ x[1] < y[1])

\* a key that leaves the distance out
ScoreOnlyKeyLess(a, b) == a.fit_score > b.fit_score

\* MatchingEngine's key (-fit_score, distance or inf): a sorts before b
EngineKeyLess(a, b) ==
    \/ a.fit_score > b.fit_score
    \/ a.fit_score = b.fit_score /\ DistanceKeyLess(a.distance_km, b.distance_km)

\* a descending order that also moves a match ahead of its ties
CtKeyLessOrEqual(a, b) == a.fit_score >= b.fit_score

\* ClinicalTrialsService's key fit_score with reverse=True
CtKeyLess(a, b) == a.fit_score > b.fit_score

KeyLess(service, a, b) ==
    IF service = "engine" THEN EngineKeyLess(a, b) ELSE CtKeyLess(a, b)

\* m goes behind every element that does not sort after it
RECURSIVE InsertStable(_, _, _)
InsertStable(service, m, sorted) ==
    IF sorted = <<>> THEN <<m>>
    ELSE IF KeyLess(service, m, Head(sorted)) THEN <<m>> \o sorted
    ELSE <<Head(sorted)>> \o InsertStable(service, m, Tail(sorted))

\* an unstable sort: m goes ahead of the elements it ties with
RECURSIVE InsertBeforeTies(_, _, _)
InsertBeforeTies(service, m, sorted) ==
    IF sorted = <<>> THEN <<m>>
    ELSE IF ~KeyLess(service, Head(sorted), m) THEN <<m>> \o sorted
    ELSE <<Head(sorted)>> \o InsertBeforeTies(service, m, Tail(sorted))

RECURSIVE SortMatchesUnstable(_, _)
SortMatchesUnstable(service, ms) ==
    IF ms = <<>> THEN <<>>
    ELSE InsertBeforeTies(service, ms[Len(ms)],
                          SortMatchesUnstable(service, SubSeq(ms, 1, Len(ms) - 1)))

\* list.sort: stable, also under reverse=True
RECURSIVE SortMatches(_, _)
SortMatches(service, ms) ==
    IF ms = <<>> THEN <<>>
    ELSE InsertStable(service, ms[Len(ms)],
                      SortMatches(service, SubSeq(ms, 1, Len(ms) - 1)))

\* matches[:max_results] for max_results >= 0
Truncate(ms, max_results) ==
    SubSeq(ms, 1, IF Len(ms) < max_results THEN Len(ms) ELSE max_results)

\* the sort and the return of the two match-and-rank operations
Rank(service, ms, max_results) ==
    IF service = "engine" THEN Truncate(SortMatches(service, ms), max_results)
    ELSE SortMatches(service, ms)

\* ----------------------------------------------------------------- state

VARIABLES
    pc,               \* where the running operation stands
    service,          \* "ct": ClinicalTrialsService, "engine": MatchingEngine,
                      \* "nearest": a bare find_nearest_site call
    max_results,      \* the caller's max_results
    patient,          \* the patient's optional location
    trials,           \* the trials search_trials returned
    oracle,           \* outcome of the latest evaluation call's try block
    evaluations,      \* what batch_evaluate_eligibility returned
    evaluation,       \* what evaluate_eligibility returned
    patient_location, \* find_nearest_site's first argument
    trial_locations,  \* find_nearest_site's second argument
    nearest_site,     \* find_nearest_site's result, first component
    distance,         \* find_nearest_site's result, second component
    matches,          \* the TrialMatch list before the sort
    result,           \* the list handed to the caller
    registry,         \* how the registry request of search_trials ended
    response,         \* what the oracle answered an extractor or the scanner
    profile,          \* the PatientProfile an extractor returned
    citations,        \* what _extract_citations returned
    finding,          \* the finding perform_ambient_search returned
    alert_key_unique, \* whether the alert table declares (drug, title) unique
    alert_table,      \* the committed rows of the alert table, in id order
    patient_table,    \* the committed rows of the patients table
    trial_table,      \* the committed rows of the trials table
    link_table,       \* the committed rows of the patient_trial_links table
    sessions,         \* the store sessions of the running operations
    returned          \* what the latest finished store operation returned

vars == <<pc, service, max_results, patient, trials, oracle, evaluations,
          evaluation, patient_location, trial_locations, nearest_site,
          distance, matches, result, registry, response, profile, citations,
          finding, alert_key_unique, alert_table, patient_table, trial_table,
          link_table, sessions, returned>>

\* the state of the persistence store and of the operations on it
storeVars == <<alert_key_unique, alert_table, patient_table, trial_table,
               link_table, sessions, returned>>

\* the state of the profile extractor and of the scanner
otherVars == <<response, profile, citations, finding>>

\* ---------------------------------------------------------------- inputs

NctIds == {"NCT01", "NCT02"}

Trial(nct_id) == [nct_id |-> nct_id]

\* sequences over S of length at most n
SeqsUpTo(S, n) == UNION { [1..k -> S] : k \in 0..n }

\* the objects the oracle writes for one trial
OracleDict(score, cat) ==
    Dict(Some("NCT02"), score, cat, Some(<<"criterion met">>), Some(<<>>),
         Some(<<"ECOG status">>), Some("Summary."))

OracleDicts ==
    { OracleDict(Some(30), Some("weak")), OracleDict(Some(90), Some("strong")),
      OracleDict(Some(90), Some("weak")), EmptyDict }

\* bodies of a single evaluation's reply
SingleValues == { JObject(d) : d \in OracleDicts } \cup {JArray(<<>>), JNumber}

\* bodies of a batch reply for n trials: arrays shorter, as long and longer
BatchValues(n) ==
    { JArray(items) : items \in SeqsUpTo(OracleDicts, n + 1) }
      \cup {JObject(EmptyDict), JObject(OracleDict(Some(90), Some("strong"))), JNumber}

\* bodies of the keyword extractor's reply: an object, or something else
KeywordValues == {JObject(EmptyDict), JArray(<<>>), JNumber}

\* site lists with the given coordinates, the sites numbered in list order
SiteListsOver(coords) ==
    { [i \in 1..Len(cs) |-> Loc(i, cs[i][1], cs[i][2])] :
        cs \in SeqsUpTo(coords, MaxSites) }

\* the candidate lists of a bare find_nearest_site call
SiteLists == SiteListsOver(OptCoords \X OptCoords)

\* the site lists of the pipeline's trials: a site without coordinates, one on
\* latitude 0, one where the patient is, and two farther away
TrialSiteLists ==
    SiteListsOver({<<None, None>>, <<Some(0), Some(1)>>, <<Some(1), Some(1)>>,
                   <<Some(1), Some(2)>>, <<Some(2), Some(2)>>})

\* the max_results callers ask for: one, two, the default
MaxResultsAsked == {1, 2, DefaultMaxResults}

Patients ==
    {None} \cup { Some(Loc(0, lat, lng)) : lat \in {None, Some(0), Some(1)},
                                             lng \in {None, Some(1)} }

\* ------------------------------------------- ClinicalTrialsService pipeline

\* search_trials: keywords.get(...) is outside the try block and raises on a
\* reply that parsed to something other than an object; a failed registry
\* request is an empty list.
SearchRaises(keyword_reply) ==
    LET p == ParseReply(keyword_reply)
    IN p.status = "json" /\ p.json.type # "object"

\* how the registry request ends: a 2xx response with a studies list, or one
\* of the failures the try block of search_trials covers
RegistryOutcomes == {"ok", "network_error", "timeout", "bad_status"}

\* search_trials without raise_for_status: an error response is read as data
SearchTrialsWithoutStatusCheck(outcome, studies) ==
    IF outcome \in {"ok", "bad_status"}
    THEN [i \in 1..Len(studies) |-> Trial(studies[i])] ELSE <<>>

SearchTrials(outcome, studies) ==
    IF outcome = "ok" THEN [i \in 1..Len(studies) |-> Trial(studies[i])] ELSE <<>>

CtSearch ==
    /\ pc = "start" /\ service = "ct"
    /\ \E keyword_reply \in Replies(KeywordValues), outcome \in RegistryOutcomes,
          studies \in SeqsUpTo(NctIds, MaxStudies) :
         IF SearchRaises(keyword_reply)
         THEN pc' = "raised" /\ trials' = trials /\ registry' = registry
         ELSE /\ pc' = "searched"
              /\ registry' = outcome
              /\ trials' = SearchTrials(outcome, studies)
    /\ UNCHANGED <<service, max_results, patient, oracle, evaluations, evaluation,
                   patient_location, trial_locations, nearest_site, distance,
                   matches, result,
                   otherVars, storeVars>>

\* if not trials: return []
CtNoTrials ==
    /\ pc = "searched" /\ trials = <<>>
    /\ result' = <<>>
    /\ pc' = "done"
    /\ UNCHANGED <<service, max_results, patient, trials, oracle, evaluations,
                   evaluation, patient_location, trial_locations, nearest_site,
                   distance, matches,
                   registry, otherVars, storeVars>>

\* the pipeline without its early return: the batch evaluation is called
\* whatever search_trials returned
CtEvaluateWithoutEarlyReturn ==
    /\ pc = "searched"
    /\ \E reply \in Replies(BatchValues(Len(trials))) :
         /\ oracle' = ParseReply(reply)
         /\ evaluations' = BatchEvaluateEligibility(trials, reply)
    /\ matches' = CtMatches(trials, evaluations', 1)
    /\ result' = Rank(service, matches', max_results)
    /\ pc' = "done"
    /\ UNCHANGED <<service, max_results, patient, trials, evaluation,
                   patient_location, trial_locations, nearest_site, distance,
                   registry, otherVars, storeVars>>

\* the batch evaluation, the match loop, the sort and the return
CtEvaluateAndRank ==
    /\ pc = "searched" /\ trials # <<>>
    /\ \E reply \in Replies(BatchValues(Len(trials))) :
         /\ oracle' = ParseReply(reply)
         /\ evaluations' = BatchEvaluateEligibility(trials, reply)
    /\ matches' = CtMatches(trials, evaluations', 1)
    /\ result' = Rank(service, matches', max_results)
    /\ pc' = "done"
    /\ UNCHANGED <<service, max_results, patient, trials, evaluation,
                   patient_location, trial_locations, nearest_site, distance,
                   registry, otherVars, storeVars>>

\* ------------------------------------------------- MatchingEngine pipeline

\* match_patient_to_trial up to its await: the nearest site of the next trial
EngineNearest ==
    /\ pc = "loop" /\ service = "engine" /\ Len(matches) < MaxTrials
    /\ \E locations \in TrialSiteLists :
         LET found == FindNearestSite(PatientCoords(patient), locations)
         IN nearest_site' = found.site /\ distance' = found.distance
    /\ pc' = "await"
    /\ UNCHANGED <<service, max_results, patient, trials, oracle, evaluations,
                   evaluation, patient_location, trial_locations, matches, result,
                   registry, otherVars, storeVars>>

\* evaluate_eligibility returns and the TrialMatch is appended; evaluation.get
\* raises, uncaught, on a reply that parsed to something other than an object.
\* match_patient_to_trial returns, and its locals nearest_site and distance end.
EngineEvaluate ==
    /\ pc = "await"
    /\ \E reply \in Replies(SingleValues), nct_id \in {"NCT01"} :
         /\ oracle' = ParseReply(reply)
         /\ evaluation' = EvaluateEligibility(reply)
         /\ IF evaluation'.type = "object"
            THEN /\ matches' = Append(matches,
                        EngineMatch(Len(matches) + 1, Trial(nct_id),
                                    evaluation'.obj, distance))
                 /\ pc' = "loop"
            ELSE /\ matches' = matches
                 /\ pc' = "raised"
    /\ nearest_site' = None /\ distance' = None
    /\ UNCHANGED <<service, max_results, patient, trials, evaluations,
                   patient_location, trial_locations, result,
                   registry, otherVars, storeVars>>

\* the trial list is exhausted: sort, truncate, return
EngineRank ==
    /\ pc = "loop" /\ service = "engine"
    /\ result' = Rank(service, matches, max_results)
    /\ pc' = "done"
    /\ UNCHANGED <<service, max_results, patient, trials, oracle, evaluations,
                   evaluation, patient_location, trial_locations, nearest_site,
                   distance, matches,
                   registry, otherVars, storeVars>>

\* ------------------------------------------------------- specifications

\* no store operation has run
StoreIdle ==
    /\ alert_key_unique = FALSE
    /\ alert_table = <<>> /\ patient_table = <<>> /\ trial_table = <<>>
    /\ link_table = <<>> /\ sessions = <<>> /\ returned = None

Idle ==
    /\ trials = <<>> /\ oracle = NoOracle
    /\ evaluations = JArray(<<>>) /\ evaluation = JObject(EmptyDict)
    /\ nearest_site = None /\ distance = None
    /\ matches = <<>> /\ result = <<>>
    /\ registry = "none"

Init ==
    /\ service \in {"ct", "engine"}
    /\ pc = IF service = "ct" THEN "start" ELSE "loop"
    /\ max_results \in MaxResultsAsked
    /\ patient \in IF service = "ct" THEN {None} ELSE Patients
    /\ patient_location = None /\ trial_locations = <<>>
    /\ response = None /\ profile = None /\ citations = <<>> /\ finding = None
    /\ StoreIdle
    /\ Idle

Next ==
    \/ CtSearch
    \/ CtNoTrials
    \/ CtEvaluateAndRank
    \/ EngineNearest
    \/ EngineEvaluate
    \/ EngineRank

Spec == Init /\ [][Next]_vars

\* a bare call of find_nearest_site
FindNearest ==
    /\ pc = "call"
    /\ LET found == FindNearestSite(patient_location, trial_locations)
       IN nearest_site' = found.site /\ distance' = found.distance
    /\ pc' = "returned"
    /\ UNCHANGED <<service, max_results, patient, trials, oracle, evaluations,
                   evaluation, patient_location, trial_locations, matches, result,
                   registry, otherVars, storeVars>>

InitNearest ==
    /\ service = "nearest" /\ pc = "call"
    /\ max_results = 0 /\ patient = None
    /\ patient_location \in {None} \cup { Some(<<a, b>>) : a \in Coords, b \in Coords }
    /\ trial_locations \in SiteLists
    /\ response = None /\ profile = None /\ citations = <<>> /\ finding = None
    /\ StoreIdle
    /\ Idle

NextNearest == FindNearest

SpecNearest == InitNearest /\ [][NextNearest]_vars

\* ------------------------------------------------------ profile extractor

\* the scalars an oracle writes into a profile object
JNull == [type |-> "null", s |-> "", n |-> 0]

JText(s) == [type |-> "string", s |-> s, n |-> 0]

JInt(n) == [type |-> "number", s |-> "", n |-> n]

\* the keys of a profile object the model follows, each one optional
ProfileData(condition, stage, age) ==
    [condition |-> condition, stage |-> stage, age |-> age]

\* PatientProfile's field types: condition is a required str, with no
\* constraint on its length; stage is Optional[str]; age is Optional[int]
ValidStr(x) == x # None /\ x[1].type = "string"

ValidOptionalStr(x) == x = None \/ x[1].type \in {"null", "string"}

ValidOptionalInt(x) == x = None \/ x[1].type \in {"null", "number"}

Validates(data) ==
    /\ ValidStr(data.condition)
    /\ ValidOptionalStr(data.stage)
    /\ ValidOptionalInt(data.age)

Field(x) == IF x = None \/ x[1].type = "null" THEN None
            ELSE IF x[1].type = "string" THEN Some(x[1].s) ELSE Some(x[1].n)

\* PatientProfile(**profile_data) on data that validates
PatientProfile(data) ==
    [condition |-> data.condition[1].s, stage |-> Field(data.stage),
     age |-> Field(data.age)]

\* PatientProfile(condition="Unknown")
UnknownProfile == [condition |-> "Unknown", stage |-> None, age |-> None]

Returned(p) == [raised |-> FALSE, profile |-> p]

Raised == [raised |-> TRUE, profile |-> UnknownProfile]

\* the try block of an extractor: the oracle call, the fence stripping,
\* json.loads and the construction of the PatientProfile
ProfileAttempt(reply) ==
    LET p == ParseReply(reply)
    IN IF p.status # "json" THEN Raised
       ELSE IF p.json.type # "object" THEN Raised
       ELSE IF ~Validates(p.json.obj) THEN Raised
       ELSE Returned(PatientProfile(p.json.obj))

\* an extractor whose try block has no except clause
ExtractWithoutExcept(reply) == ProfileAttempt(reply)

\* extract_patient_profile: the try block and its except clause
ExtractPatientProfile(reply) ==
    IF ProfileAttempt(reply).raised THEN Returned(UnknownProfile)
    ELSE ProfileAttempt(reply)

\* the objects an oracle writes for a profile
ProfileObjects ==
    { ProfileData(c, st, a) :
        c \in {None, Some(JNull), Some(JText("")), Some(JText("NSCLC"))},
        st \in {None, Some(JText("IV"))},
        a \in {None, Some(JNull), Some(JInt(62)), Some(JText("n/a"))} }

ProfileValues == { JObject(d) : d \in ProfileObjects } \cup {JArray(<<>>), JNumber}

\* extract_profile_from_image up to the oracle call: PIL.Image.open, inside
\* the try block, raises on bytes that are no image
ExtractOpenImage ==
    /\ pc = "open" /\ service = "image"
    /\ \E opened \in BOOLEAN :
         IF opened THEN pc' = "ask" /\ profile' = profile
         ELSE pc' = "returned" /\ profile' = Some(UnknownProfile)
    /\ UNCHANGED <<service, max_results, patient, trials, oracle, evaluations,
                   evaluation, patient_location, trial_locations, nearest_site,
                   distance, matches, result, registry, response, citations,
                   finding, storeVars>>

\* the oracle call of either extractor and everything after it
ExtractProfile ==
    /\ pc = "ask" /\ service \in {"text", "image"}
    /\ \E reply \in Replies(ProfileValues) :
         /\ response' = Some(reply)
         /\ IF ExtractPatientProfile(reply).raised
            THEN pc' = "raised" /\ profile' = profile
            ELSE /\ pc' = "returned"
                 /\ profile' = Some(ExtractPatientProfile(reply).profile)
    /\ UNCHANGED <<service, max_results, patient, trials, oracle, evaluations,
                   evaluation, patient_location, trial_locations, nearest_site,
                   distance, matches, result, registry, citations, finding, storeVars>>

InitExtract ==
    /\ service \in {"text", "image"}
    /\ pc = IF service = "image" THEN "open" ELSE "ask"
    /\ max_results = 0 /\ patient = None
    /\ patient_location = None /\ trial_locations = <<>>
    /\ response = None /\ profile = None /\ citations = <<>> /\ finding = None
    /\ StoreIdle
    /\ Idle

NextExtract == ExtractOpenImage \/ ExtractProfile

SpecExtract == InitExtract /\ [][NextExtract]_vars

\* ------------------------------------------------ ambient signal scanner

\* citations one oracle response carries
MaxCitations == 2
\* body tokens of one oracle text
MaxBodyTokens == 2
\* text[:500]
DescriptionLimit == 500

\* the treatment perform_ambient_search is called with
Treatment == "Drug-X"

\* one entry of _extract_citations' list
Citation(title, url) == [title |-> title, url |-> url]

\* chunk.web.title or "Source", chunk.web.uri or ""
Citations == {Citation("FDA label update", "https://fda.example"), Citation("Source", "")}

\* A finding: every key optional.
Finding(drug, found_update, title, description, source, source_url, sources) ==
    [drug |-> drug, found_update |-> found_update, title |-> title,
     description |-> description, source |-> source, source_url |-> source_url,
     sources |-> sources]

EmptyFinding == Finding(None, None, None, None, None, None, None)

\* A description: a fixed message, the oracle's own sentence, or the first
\* chars characters of a text.
Description(kind, text, chars) == [kind |-> kind, text |-> text, chars |-> chars]

Message(kind) == Description(kind, <<>>, 0)

\* prose longer than the description limit
LongJunk == [t |-> "long_junk", v |-> JNumber]

\* an object with the key "drug" and without braces inside that is not
\* JSON, such as {"drug": "Drug-X", "found_update": yes}
BrokenObject == [t |-> "broken_object", v |-> JNumber]

\* len(text), token by token
Chars(tok) ==
    CASE tok.t = "fence_json" -> 7
      [] tok.t = "fence" -> 3
      [] tok.t = "junk" -> 40
      [] tok.t = "long_junk" -> 600
      [] OTHER -> 60

RECURSIVE TextLen(_)
TextLen(text) == IF text = <<>> THEN 0 ELSE Chars(text[1]) + TextLen(Tail(text))

Min(a, b) == IF a < b THEN a ELSE b

\* text[:500]
Prefix(text) == Description("text", text, Min(TextLen(text), DescriptionLimit))

\* What re.search(r'\{[^{}]*"drug"[^{}]*\}') finds in one token: a flat
\* object with the key "drug", alone or as an item of an array, or the
\* broken object; an object without that key holds no match.
NoMatch == [found |-> FALSE, valid |-> FALSE, obj |-> EmptyFinding]

RECURSIVE FirstDrugItem(_)
FirstDrugItem(items) ==
    IF items = <<>> THEN NoMatch
    ELSE IF items[1].drug # None
         THEN [found |-> TRUE, valid |-> TRUE, obj |-> items[1]]
         ELSE FirstDrugItem(Tail(items))

TokenMatch(tok) ==
    IF tok.t = "broken_object" THEN [found |-> TRUE, valid |-> FALSE, obj |-> EmptyFinding]
    ELSE IF tok.t # "value" THEN NoMatch
    ELSE IF tok.v.type = "object"
         THEN IF tok.v.obj.drug # None
              THEN [found |-> TRUE, valid |-> TRUE, obj |-> tok.v.obj]
              ELSE NoMatch
    ELSE IF tok.v.type = "array" THEN FirstDrugItem(tok.v.items)
    ELSE NoMatch

\* re.search returns the leftmost match
RECURSIVE RegexSearch(_)
RegexSearch(text) ==
    IF text = <<>> THEN NoMatch
    ELSE IF TokenMatch(text[1]).found THEN TokenMatch(text[1])
    ELSE RegexSearch(Tail(text))

\* no text, citations
FromCitations(cs) ==
    Finding(Some(Treatment), Some(TRUE), Some("Recent updates found for Drug-X"),
            Some(Message("sources_found")), Some(cs[1].title), Some(cs[1].url),
            Some(cs))

\* no text, no citations
NoResponse ==
    Finding(Some(Treatment), Some(FALSE), None, Some(Message("no_response")),
            None, None, Some(<<>>))

\* the synthesized finding written with found_update False
SynthesizedNotFound(text) ==
    Finding(Some(Treatment), Some(FALSE), Some("Update for Drug-X"),
            Some(Prefix(text)), None, None, None)

\* the finding made of the text when json.loads(text) fails
Synthesized(text) ==
    Finding(Some(Treatment), Some(TRUE), Some("Update for Drug-X"),
            Some(Prefix(text)), None, None, None)

\* nothing is left of the text after the fences
NoStructuredData ==
    Finding(Some(Treatment), Some(FALSE), None, Some(Message("no_structured_data")),
            None, None, Some(<<>>))

\* the outer except clause
SearchError ==
    Finding(Some(Treatment), Some(FALSE), None, Some(Message("search_error")),
            None, None, Some(<<>>))

\* if citations: ... else: ...
AddCitations(data, cs) ==
    IF cs # <<>>
    THEN [data EXCEPT !.sources = Some(cs), !.source = Some(cs[1].title),
                      !.source_url = Some(cs[1].url)]
    ELSE [data EXCEPT !.source = Some("Google Search"), !.source_url = Some(""),
                      !.sources = Some(<<>>)]

\* data = ... : the regex match, the full text, or a finding made on the
\* spot; json.loads of the match is outside the inner try, and its
\* JSONDecodeError leaves the try block
Parsed(j) == [raised |-> FALSE, data |-> j]

MatchRaised == [raised |-> TRUE, data |-> JNumber]

ParseFinding(text) ==
    LET json_match == RegexSearch(text)
    IN IF json_match.found
       THEN IF json_match.valid THEN Parsed(JObject(json_match.obj)) ELSE MatchRaised
       ELSE IF text # <<>>
            THEN IF JsonValid(text) THEN Parsed(text[1].v)
                 ELSE Parsed(JObject(Synthesized(text)))
            ELSE Parsed(JObject(NoStructuredData))

Found(f) == [raised |-> FALSE, finding |-> f]

Failed == [raised |-> TRUE, finding |-> EmptyFinding]

\* the try block of perform_ambient_search; data["sources"] = ... raises on
\* a parsed value that is no object
AmbientAttempt(reply, cs) ==
    IF reply.raised THEN Failed
    ELSE IF reply.text = <<>>
         THEN IF cs # <<>> THEN Found(FromCitations(cs)) ELSE Found(NoResponse)
    ELSE LET parsed == ParseFinding(StripFences(reply.text))
         IN IF parsed.raised THEN Failed
            ELSE IF parsed.data.type # "object" THEN Failed
            ELSE Found(AddCitations(parsed.data.obj, cs))

\* perform_ambient_search: the try block and the outer except clause
PerformAmbientSearch(reply, cs) ==
    IF AmbientAttempt(reply, cs).raised THEN Found(SearchError)
    ELSE AmbientAttempt(reply, cs)

\* the objects the oracle writes: complete, without an update, with its own
\* source, without found_update, and without any key
OracleFinding(drug, found_update, source) ==
    Finding(drug, found_update, Some("Label change"), Some(Message("oracle")),
            source, None, None)

OracleFindings ==
    { OracleFinding(Some(Treatment), Some(TRUE), None),
      OracleFinding(Some(Treatment), Some(FALSE), None),
      OracleFinding(Some(Treatment), Some(TRUE), Some("PubMed")),
      OracleFinding(Some(Treatment), None, None),
      OracleFinding(None, Some(TRUE), None),
      EmptyFinding }

FindingValues ==
    { JObject(f) : f \in OracleFindings }
      \cup {JArray(<<>>), JArray(<<OracleFinding(Some(Treatment), Some(TRUE), None)>>),
            JNumber}

BodyTokens == {Junk, LongJunk, BrokenObject} \cup { Value(j) : j \in FindingValues }

\* the texts of the grounded oracle: fences around at most MaxBodyTokens
\* tokens, the fences alone included
Texts ==
    { pre \o body \o post :
        pre \in {<<>>, <<FenceJson>>, <<Fence>>},
        body \in SeqsUpTo(BodyTokens, MaxBodyTokens),
        post \in {<<>>, <<Fence>>} }

\* generate_content returns or raises; a response that raised has no
\* grounding metadata
AmbientSearchCall ==
    /\ pc = "scan" /\ service = "radar"
    /\ \E raised \in BOOLEAN, text \in Texts, cs \in SeqsUpTo(Citations, MaxCitations) :
         /\ response' = Some(Reply(raised, IF raised THEN <<>> ELSE text))
         /\ citations' = IF raised THEN <<>> ELSE cs
    /\ pc' = "answered"
    /\ UNCHANGED <<service, max_results, patient, trials, oracle, evaluations,
                   evaluation, patient_location, trial_locations, nearest_site,
                   distance, matches, result, registry, profile, finding, storeVars>>

\* everything after the oracle call
AmbientSearchReturn ==
    /\ pc = "answered" /\ service = "radar"
    /\ IF PerformAmbientSearch(response[1], citations).raised
       THEN pc' = "raised" /\ finding' = finding
       ELSE /\ pc' = "returned"
            /\ finding' = Some(PerformAmbientSearch(response[1], citations).finding)
    /\ UNCHANGED <<service, max_results, patient, trials, oracle, evaluations,
                   evaluation, patient_location, trial_locations, nearest_site,
                   distance, matches, result, registry, response, profile,
                   citations, storeVars>>

InitRadar ==
    /\ service = "radar" /\ pc = "scan"
    /\ max_results = 0 /\ patient = None
    /\ patient_location = None /\ trial_locations = <<>>
    /\ response = None /\ profile = None /\ citations = <<>> /\ finding = None
    /\ StoreIdle
    /\ Idle

NextRadar == AmbientSearchCall \/ AmbientSearchReturn

SpecRadar == InitRadar /\ [][NextRadar]_vars

\* ------------------------------------------------------------ alert store

\* alerts handed to one save_alerts call
MaxAlerts == 2

\* the sessions that can be open at the same time
SessionIds == {1, 2}

\* an alert as save_alerts reads it: the two key fields and the event date
Alert(drug, title, date) == [drug |-> drug, title |-> title, date |-> date]

Alerts ==
    { Alert("Drug-X", "Label change", 1), Alert("Drug-X", "Label change", 2),
      Alert("Drug-X", "Trial readout", 1), Alert("Drug-Y", "Label change", 2) }

\* RadarAlertORM(..., is_new=True) with the id the table gives it
AlertRow(id, alert) ==
    [id |-> id, drug |-> alert.drug, title |-> alert.title, date |-> alert.date,
     is_new |-> TRUE]

\* RadarAlertORM.drug == alert_data["drug"], RadarAlertORM.title == alert_data["title"]
SameKey(row, alert) == row.drug = alert.drug /\ row.title = alert.title

Count(alert, rows) == Cardinality({ i \in 1..Len(rows) : SameKey(rows[i], alert) })

\* a duplicate check that sees the committed rows only, not the alerts the
\* call has added itself
MatchingCommittedOnly(alert, table, pending) == Count(alert, table)

\* the rows the select returns: the committed ones and, flushed before the
\* query runs, the ones this session has added
Matching(alert, table, pending) == Count(alert, table) + Count(alert, pending)

\* the flush of the session's alerts into a table that declares the key
\* unique and holds one of their keys already
FlushFails(unique, table, pending) ==
    unique /\ \E i \in 1..Len(pending) : Count(pending[i], table) > 0

\* a commit that also marks the rows already stored as new
CommittedAsNew(table, pending) ==
    [i \in 1..Len(table) |-> [table[i] EXCEPT !.is_new = TRUE]]
      \o [i \in 1..Len(pending) |-> AlertRow(Len(table) + i, pending[i])]

\* db_session.commit(): the added alerts become rows, ids in insertion order
Committed(table, pending) ==
    table \o [i \in 1..Len(pending) |-> AlertRow(Len(table) + i, pending[i])]

IdleSession == [pc |-> "idle", alerts |-> <<>>, i |-> 0, pending |-> <<>>]

Finished(outcome) == [pc |-> outcome, alerts |-> <<>>, i |-> 0, pending |-> <<>>]

InProgress(c) == sessions[c].pc \in {"check", "commit"}

\* save_alerts is called; calls of the sequential service follow one another
SaveAlertsCall(c) ==
    /\ service \in {"alerts", "concurrent_alerts"}
    /\ IF service = "alerts"
       THEN c = 1 /\ ~InProgress(c)
       ELSE sessions[c].pc = "idle"
    /\ \E alerts \in SeqsUpTo(Alerts, MaxAlerts) :
         sessions' = [sessions EXCEPT ![c] =
                        [pc |-> IF alerts = <<>> THEN "commit" ELSE "check",
                         alerts |-> alerts, i |-> 1, pending |-> <<>>]]
    /\ returned' = None
    /\ UNCHANGED <<pc, service, max_results, patient, trials, oracle, evaluations,
                   evaluation, patient_location, trial_locations, nearest_site,
                   distance, matches, result, registry, otherVars,
                   alert_key_unique, alert_table, patient_table, trial_table,
                   link_table>>

\* one iteration of the loop: the select with scalar_one_or_none(), which
\* raises on two matching rows, and the add
SaveAlertsCheck(c) ==
    /\ sessions[c].pc = "check"
    /\ LET s == sessions[c]
           alert == s.alerts[s.i]
           n == Matching(alert, alert_table, s.pending)
       IN sessions' = [sessions EXCEPT ![c] =
            IF FlushFails(alert_key_unique, alert_table, s.pending) \/ n > 1
            THEN Finished("raised")
            ELSE [s EXCEPT !.pending = IF n = 0 THEN Append(s.pending, alert)
                                       ELSE s.pending,
                           !.i = s.i + 1,
                           !.pc = IF s.i = Len(s.alerts) THEN "commit" ELSE "check"]]
    /\ returned' = None
    /\ UNCHANGED <<pc, service, max_results, patient, trials, oracle, evaluations,
                   evaluation, patient_location, trial_locations, nearest_site,
                   distance, matches, result, registry, otherVars,
                   alert_key_unique, alert_table, patient_table, trial_table,
                   link_table>>

\* await db_session.commit()
SaveAlertsCommit(c) ==
    /\ sessions[c].pc = "commit"
    /\ IF FlushFails(alert_key_unique, alert_table, sessions[c].pending)
       THEN /\ sessions' = [sessions EXCEPT ![c] = Finished("raised")]
            /\ alert_table' = alert_table
       ELSE /\ sessions' = [sessions EXCEPT ![c] = Finished("done")]
            /\ alert_table' = Committed(alert_table, sessions[c].pending)
    /\ returned' = None
    /\ UNCHANGED <<pc, service, max_results, patient, trials, oracle, evaluations,
                   evaluation, patient_location, trial_locations, nearest_site,
                   distance, matches, result, registry, otherVars,
                   alert_key_unique, patient_table, trial_table, link_table>>

\* order_by(RadarAlertORM.is_new.desc(), RadarAlertORM.id.desc()): a before b
OrderBefore(a, b) ==
    \/ a.is_new /\ ~b.is_new
    \/ a.is_new = b.is_new /\ a.id > b.id

\* the rows in the order of the query
RECURSIVE Ordered(_)
Ordered(rows) ==
    IF rows = {} THEN <<>>
    ELSE LET first == CHOOSE a \in rows : \A b \in rows \ {a} : OrderBefore(a, b)
         IN <<first>> \o Ordered(rows \ {first})

GetAlerts ==
    /\ service \in {"alerts", "concurrent_alerts"}
    /\ returned' = Some(Ordered({ alert_table[i] : i \in 1..Len(alert_table) }))
    /\ UNCHANGED <<pc, service, max_results, patient, trials, oracle, evaluations,
                   evaluation, patient_location, trial_locations, nearest_site,
                   distance, matches, result, registry, otherVars,
                   alert_key_unique, alert_table, patient_table, trial_table,
                   link_table, sessions>>

\* mark_alerts_as_read: nothing on an empty id list, else the update
MarkedRead(table, alert_ids) ==
    [i \in 1..Len(table) |->
        IF table[i].id \in alert_ids THEN [table[i] EXCEPT !.is_new = FALSE]
        ELSE table[i]]

MarkAlertsAsRead ==
    /\ service \in {"alerts", "concurrent_alerts"}
    /\ \E alert_ids \in SUBSET (1..(Len(alert_table) + 1)) :
         alert_table' = MarkedRead(alert_table, alert_ids)
    /\ returned' = None
    /\ UNCHANGED <<pc, service, max_results, patient, trials, oracle, evaluations,
                   evaluation, patient_location, trial_locations, nearest_site,
                   distance, matches, result, registry, otherVars,
                   alert_key_unique, patient_table, trial_table, link_table,
                   sessions>>

InitAlertStore ==
    /\ pc = "store" /\ max_results = 0 /\ patient = None
    /\ patient_location = None /\ trial_locations = <<>>
    /\ response = None /\ profile = None /\ citations = <<>> /\ finding = None
    /\ Idle
    /\ alert_key_unique \in BOOLEAN
    /\ alert_table = <<>> /\ patient_table = <<>> /\ trial_table = <<>>
    /\ link_table = <<>> /\ returned = None
    /\ sessions = [c \in SessionIds |-> IdleSession]

InitAlerts == service = "alerts" /\ InitAlertStore

InitConcurrentAlerts == service = "concurrent_alerts" /\ InitAlertStore

NextAlerts ==
    \/ \E c \in SessionIds : SaveAlertsCall(c)
    \/ \E c \in SessionIds : SaveAlertsCheck(c)
    \/ \E c \in SessionIds : SaveAlertsCommit(c)
    \/ GetAlerts
    \/ MarkAlertsAsRead

SpecAlerts == InitAlerts /\ [][NextAlerts]_vars

SpecConcurrentAlerts == InitConcurrentAlerts /\ [][NextAlerts]_vars

\* -------------------------------------------------- patient and trial store

\* request.selected_trials[:3]
SelectionLimit == 3

\* the patient ids uuid4 can produce
PatientIds == {"P1", "P2"}

\* the three trials of create_sample_trials
SampleTrials == <<"NCT04939948", "NCT05382286", "NCT04584112">>

\* the trials a request can select and the registry can return
StoreNctIds == {"NCT01", "NCT04939948"}

\* rows of the three tables
PatientRow(patient_id, name) == [patient_id |-> patient_id, name |-> name]

TrialRow(nct_id) == [nct_id |-> nct_id]

LinkRow(patient_id, nct_id) == [patient_id |-> patient_id, nct_id |-> nct_id]

Db(p, t, l) == [patients |-> p, trials |-> t, links |-> l]

HasPatient(rows, patient_id) == \E i \in 1..Len(rows) : rows[i].patient_id = patient_id

HasTrial(rows, nct_id) == \E i \in 1..Len(rows) : rows[i].nct_id = nct_id

\* a trials table whose nct_id column is not declared unique
InsertNeverFails(table, nct_ids) == FALSE

\* nct_id = Column(String, unique=True, ...): the insert of a stored
\* nct_id fails with IntegrityError
InsertFails(table, nct_ids) ==
    \E i \in 1..Len(nct_ids) : HasTrial(table, nct_ids[i])

RECURSIVE Without(_, _)
\* the links table without a patient's links
Without(links, patient_id) ==
    IF links = <<>> THEN <<>>
    ELSE (IF links[1].patient_id = patient_id THEN <<>> ELSE <<links[1]>>)
         \o Without(Tail(links), patient_id)

RECURSIVE LinksOf(_, _)
\* patient.saved_trials
LinksOf(links, patient_id) ==
    IF links = <<>> THEN <<>>
    ELSE (IF links[1].patient_id = patient_id THEN <<links[1]>> ELSE <<>>)
         \o LinksOf(Tail(links), patient_id)

\* a selection taken whole
WholeSelection(selected_trials) == selected_trials

\* request.selected_trials[:3]
Chosen(selected_trials) ==
    SubSeq(selected_trials, 1, Min(SelectionLimit, Len(selected_trials)))

\* A request of save_patient ("save") or update_patient_trials ("update")
\* in its session: the links the patient had when the request loaded it, the
\* trials and links added and not yet committed.
Request(op, patient_id, name, selected_trials, saved_trials) ==
    [op |-> op, pc |-> IF Chosen(selected_trials) = <<>> THEN "commit" ELSE "select",
     patient_id |-> patient_id, name |-> name, selection |-> selected_trials,
     saved_trials |-> saved_trials, i |-> 1, trials |-> <<>>, links |-> <<>>]

NctIdAt(s) == Chosen(s.selection)[s.i].nct_id

\* db.add(link) and the next iteration, or the commit after the last
LinkAdded(s) ==
    [s EXCEPT !.links = Append(s.links, LinkRow(s.patient_id, NctIdAt(s))),
              !.i = s.i + 1,
              !.pc = IF s.i = Len(Chosen(s.selection)) THEN "commit" ELSE "select"]

\* select(TrialORM).where(TrialORM.nct_id == trial_match.nct_id): the
\* committed rows and the session's own
StepSelect(db, s) ==
    IF HasTrial(db.trials, NctIdAt(s)) \/ \E k \in 1..Len(s.trials) : s.trials[k] = NctIdAt(s)
    THEN LinkAdded(s)
    ELSE [s EXCEPT !.pc = "flush"]

\* db.add(trial_orm); await db.flush()
StepFlush(db, s) ==
    IF InsertFails(db.trials, <<NctIdAt(s)>>)
    THEN [s EXCEPT !.pc = "raised"]
    ELSE LinkAdded([s EXCEPT !.trials = Append(s.trials, NctIdAt(s))])

\* for link in patient.saved_trials: await db.delete(link)
RECURSIVE WithoutRow(_, _)
WithoutRow(links, link) ==
    IF links = <<>> THEN <<>>
    ELSE IF links[1] = link THEN Tail(links)
    ELSE <<links[1]>> \o WithoutRow(Tail(links), link)

RECURSIVE Deleted(_, _)
Deleted(links, saved_trials) ==
    IF saved_trials = <<>> THEN links
    ELSE Deleted(WithoutRow(links, saved_trials[1]), Tail(saved_trials))

\* update_patient_trials that adds the new links and keeps the old ones
CommittedKeepingLinks(db, s) ==
    Db(IF s.op = "save" THEN Append(db.patients, PatientRow(s.patient_id, s.name))
       ELSE db.patients,
       db.trials \o [k \in 1..Len(s.trials) |-> TrialRow(s.trials[k])],
       db.links \o s.links)

\* await db.commit() of a request: the patient of a save, the placeholder
\* trials, the links; an update's deletes of the loaded links come first
CommittedRequest(db, s) ==
    Db(IF s.op = "save" THEN Append(db.patients, PatientRow(s.patient_id, s.name))
       ELSE db.patients,
       db.trials \o [k \in 1..Len(s.trials) |-> TrialRow(s.trials[k])],
       Deleted(db.links, s.saved_trials) \o s.links)

\* one await of a request: the store and the session after it
StepRequest(db, s) ==
    IF s.pc = "select" THEN [db |-> db, s |-> StepSelect(db, s)]
    ELSE IF s.pc = "flush" THEN [db |-> db, s |-> StepFlush(db, s)]
    ELSE IF InsertFails(db.trials, s.trials)
         THEN [db |-> db, s |-> [s EXCEPT !.pc = "raised"]]
         ELSE [db |-> CommittedRequest(db, s), s |-> [s EXCEPT !.pc = "done"]]

Ended(s) == s.pc \in {"done", "raised", "not_found"}

\* a request that runs alone, from its first await to its last
RECURSIVE RunRequest(_, _)
RunRequest(db, s) ==
    IF Ended(s) THEN [db |-> db, s |-> s]
    ELSE RunRequest(StepRequest(db, s).db, StepRequest(db, s).s)

\* what a finished operation handed to its caller: "done" with its value,
\* "not_found" for HTTPException(404), "raised" for any other exception;
\* known tells whether the key was stored when the operation began
Outcome(op, key, known, outcome, input) ==
    [op |-> op, key |-> key, known |-> known, outcome |-> outcome, input |-> input]

\* the selections a request can carry: none, fewer than the limit, the
\* limit, more than the limit
Selections ==
    { <<>>,
      <<Trial("NCT01")>>,
      <<Trial("NCT04939948"), Trial("NCT01")>>,
      <<Trial("NCT01"), Trial("NCT04939948"), Trial("NCT04939948")>>,
      <<Trial("NCT04939948"), Trial("NCT01"), Trial("NCT01"), Trial("NCT04939948")>>,
      <<Trial("NCT01"), Trial("NCT01"), Trial("NCT04939948"), Trial("NCT01")>> }

\* the frame of every store operation on patients and trials
StoreFrame ==
    UNCHANGED <<pc, service, max_results, patient, trials, oracle, evaluations,
                evaluation, patient_location, trial_locations, nearest_site,
                distance, matches, result, registry, otherVars,
                alert_key_unique, alert_table, sessions>>

Stored == Db(patient_table, trial_table, link_table)

Store(db) ==
    /\ patient_table' = db.patients
    /\ trial_table' = db.trials
    /\ link_table' = db.links

\* save_patient, with the patient id uuid4 gives
SavePatient ==
    /\ service = "store"
    /\ \E patient_id \in PatientIds, selected_trials \in Selections :
         /\ ~HasPatient(patient_table, patient_id)
         /\ LET r == RunRequest(Stored, Request("save", patient_id, "A", selected_trials, <<>>))
            IN /\ Store(r.db)
               /\ returned' = Some(Outcome("save_patient", patient_id, TRUE, r.s.pc,
                                           selected_trials))
    /\ StoreFrame

\* update_patient_trials
UpdatePatientTrials ==
    /\ service = "store"
    /\ \E patient_id \in PatientIds, selected_trials \in Selections :
         IF ~HasPatient(patient_table, patient_id)
         THEN /\ Store(Stored)
              /\ returned' = Some(Outcome("update_patient_trials", patient_id, FALSE,
                                          "not_found", selected_trials))
         ELSE LET r == RunRequest(Stored,
                                  Request("update", patient_id, "A", selected_trials,
                                          LinksOf(link_table, patient_id)))
              IN /\ Store(r.db)
                 /\ returned' = Some(Outcome("update_patient_trials", patient_id, TRUE,
                                             r.s.pc, selected_trials))
    /\ StoreFrame

RECURSIVE WithoutPatient(_, _)
WithoutPatient(rows, patient_id) ==
    IF rows = <<>> THEN <<>>
    ELSE (IF rows[1].patient_id = patient_id THEN <<>> ELSE <<rows[1]>>)
         \o WithoutPatient(Tail(rows), patient_id)

\* delete_patient; the links go with the patient (cascade="all, delete-orphan")
DeletePatient ==
    /\ service = "store"
    /\ \E patient_id \in PatientIds :
         IF ~HasPatient(patient_table, patient_id)
         THEN /\ Store(Stored)
              /\ returned' = Some(Outcome("delete_patient", patient_id, FALSE,
                                          "not_found", <<>>))
         ELSE /\ Store(Db(WithoutPatient(patient_table, patient_id), trial_table,
                          Without(link_table, patient_id)))
              /\ returned' = Some(Outcome("delete_patient", patient_id, TRUE, "done",
                                          <<>>))
    /\ StoreFrame

\* update_patient_profile: a field the request leaves None is kept
UpdatePatientProfile ==
    /\ service = "store"
    /\ \E patient_id \in PatientIds, name \in {None, Some("B")} :
         IF ~HasPatient(patient_table, patient_id)
         THEN /\ Store(Stored)
              /\ returned' = Some(Outcome("update_patient_profile", patient_id, FALSE,
                                          "not_found", <<>>))
         ELSE /\ Store(Db([k \in 1..Len(patient_table) |->
                              IF patient_table[k].patient_id = patient_id /\ name # None
                              THEN [patient_table[k] EXCEPT !.name = name[1]]
                              ELSE patient_table[k]],
                          trial_table, link_table))
              /\ returned' = Some(Outcome("update_patient_profile", patient_id, TRUE,
                                          "done", <<>>))
    /\ StoreFrame

\* get_patient_trials, and get_chart_data with skip_matching: the saved links
GetSavedTrials ==
    /\ service = "store"
    /\ \E op \in {"get_patient_trials", "get_chart_data"}, patient_id \in PatientIds :
         returned' =
            IF ~HasPatient(patient_table, patient_id)
            THEN Some(Outcome(op, patient_id, FALSE, "not_found", <<>>))
            ELSE Some(Outcome(op, patient_id, TRUE, "done",
                              LinksOf(link_table, patient_id)))
    /\ Store(Stored)
    /\ StoreFrame

\* get_trial: the link to the registry's page, with no lookup in the store
GetTrial ==
    /\ service = "store"
    /\ \E nct_id \in StoreNctIds :
         returned' = Some(Outcome("get_trial", nct_id, HasTrial(trial_table, nct_id),
                                  "done", <<>>))
    /\ Store(Stored)
    /\ StoreFrame

\* the loop of ingest_trials: a stored nct_id is skipped, a new trial is
\* added and committed
RECURSIVE IngestStudies(_, _)
IngestStudies(table, studies) ==
    IF studies = <<>> THEN table
    ELSE IngestStudies(IF HasTrial(table, studies[1]) THEN table
                       ELSE Append(table, TrialRow(studies[1])),
                       Tail(studies))

\* create_sample_trials: the three trials are added with no lookup and
\* committed together
CreateSampleTrials(table) ==
    IF InsertFails(table, SampleTrials)
    THEN [raised |-> TRUE, table |-> table]
    ELSE [raised |-> FALSE,
          table |-> table \o [k \in 1..Len(SampleTrials) |->
                                 TrialRow(SampleTrials[k])]]

\* ingest_trials on what fetch_oncology_trials returned; a failed fetch is
\* the empty list
Ingested(table, studies) ==
    IF studies = <<>> THEN CreateSampleTrials(table)
    ELSE [raised |-> FALSE, table |-> IngestStudies(table, studies)]

IngestTrials ==
    /\ service = "store"
    /\ \E studies \in SeqsUpTo(StoreNctIds, MaxStudies) :
         /\ Store(Db(patient_table, Ingested(trial_table, studies).table, link_table))
         /\ returned' = Some(Outcome("ingest_trials", "", TRUE,
                                     IF Ingested(trial_table, studies).raised
                                     THEN "raised" ELSE "done",
                                     studies))
    /\ StoreFrame

InitStore ==
    /\ service = "store" /\ pc = "store"
    /\ max_results = 0 /\ patient = None
    /\ patient_location = None /\ trial_locations = <<>>
    /\ response = None /\ profile = None /\ citations = <<>> /\ finding = None
    /\ Idle
    /\ StoreIdle

NextStore ==
    \/ SavePatient
    \/ UpdatePatientTrials
    \/ DeletePatient
    \/ UpdatePatientProfile
    \/ GetSavedTrials
    \/ GetTrial
    \/ IngestTrials

SpecStore == InitStore /\ [][NextStore]_vars

\* concurrent requests, each in the session get_db gives it; a request runs
\* from one await to the next and the others run in between
ConcurrentFrame ==
    UNCHANGED <<pc, service, max_results, patient, trials, oracle, evaluations,
                evaluation, patient_location, trial_locations, nearest_site,
                distance, matches, result, registry, otherVars,
                alert_key_unique, alert_table, returned>>

\* save_patient is called: the patient id is one no other request has
SavePatientCall(c) ==
    /\ service = "concurrent_store"
    /\ sessions[c].pc = "idle"
    /\ \E patient_id \in PatientIds, selected_trials \in Selections :
         /\ ~HasPatient(patient_table, patient_id)
         /\ \A d \in SessionIds \ {c} :
               IF sessions[d].pc = "idle" THEN TRUE
               ELSE sessions[d].patient_id # patient_id
         /\ sessions' = [sessions EXCEPT
                           ![c] = Request("save", patient_id, "A", selected_trials, <<>>)]
    /\ Store(Stored)
    /\ ConcurrentFrame

\* update_patient_trials is called and loads the patient with its links
UpdatePatientTrialsCall(c) ==
    /\ service = "concurrent_store"
    /\ sessions[c].pc = "idle"
    /\ \E patient_id \in PatientIds, selected_trials \in Selections :
         sessions' = [sessions EXCEPT
                        ![c] = IF ~HasPatient(patient_table, patient_id)
                               THEN [Request("update", patient_id, "A", selected_trials,
                                             <<>>) EXCEPT !.pc = "not_found"]
                               ELSE Request("update", patient_id, "A", selected_trials,
                                            LinksOf(link_table, patient_id))]
    /\ Store(Stored)
    /\ ConcurrentFrame

\* a request goes on to its next await
RequestStep(c) ==
    /\ service = "concurrent_store"
    /\ sessions[c].pc \in {"select", "flush", "commit"}
    /\ Store(StepRequest(Stored, sessions[c]).db)
    /\ sessions' = [sessions EXCEPT ![c] = StepRequest(Stored, sessions[c]).s]
    /\ ConcurrentFrame

InitConcurrentStore ==
    /\ service = "concurrent_store" /\ pc = "store"
    /\ max_results = 0 /\ patient = None
    /\ patient_location = None /\ trial_locations = <<>>
    /\ response = None /\ profile = None /\ citations = <<>> /\ finding = None
    /\ Idle
    /\ alert_key_unique = FALSE /\ alert_table = <<>>
    /\ patient_table \in {<<>>, <<PatientRow("P1", "A")>>}
    /\ trial_table = <<>> /\ link_table = <<>> /\ returned = None
    /\ sessions = [c \in SessionIds |-> IdleSession]

NextConcurrentStore ==
    \/ \E c \in SessionIds : SavePatientCall(c)
    \/ \E c \in SessionIds : UpdatePatientTrialsCall(c)
    \/ \E c \in SessionIds : RequestStep(c)

SpecConcurrentStore == InitConcurrentStore /\ [][NextConcurrentStore]_vars

\* ---------------------------------------------------------------- claims

\* the batch evaluation of the ClinicalTrialsService pipeline has returned
BatchReturned == service = "ct" /\ pc = "done" /\ trials # <<>>

\* the batch reply parsed to a JSON array
ParsedArray == oracle.status = "json" /\ oracle.json.type = "array"

\* the evaluation call failed: the oracle raised or its text is no JSON
CallFailed == oracle.status \in {"raised", "invalid"}

\* C1: for an oracle reply that is a JSON array of any length, unparseable
\* text or an oracle error, batch_evaluate_eligibility returns exactly one
\* evaluation per submitted trial, matched to the trials by position.
C1_OneEvaluationPerTrial ==
    (BatchReturned /\ (ParsedArray \/ CallFailed))
        => /\ evaluations.type = "array"
           /\ Len(evaluations.items) = Len(trials)

\* C2: when the batch reply parses to k entries, k < n trials, the result
\* keeps the k entries unchanged at positions 1..k and holds at every later
\* position i the placeholder with the i-th trial's nct_id, score 40, category
\* "weak", empty criteria lists and missing_info "Evaluation not completed".
C2_ShortfallPadded ==
    (BatchReturned /\ ParsedArray /\ Len(oracle.json.items) < Len(trials))
        => /\ evaluations.type = "array"
           /\ Len(evaluations.items) = Len(trials)
           /\ \A i \in 1..Len(trials) :
                LET e == evaluations.items[i]
                IN IF i <= Len(oracle.json.items)
                   THEN e = oracle.json.items[i]
                   ELSE /\ e.nct_id = Some(trials[i].nct_id)
                        /\ e.fit_score = Some(40)
                        /\ e.fit_category = Some("weak")
                        /\ e.meets_criteria = Some(<<>>)
                        /\ e.fails_criteria = Some(<<>>)
                        /\ e.missing_info = Some(<<"Evaluation not completed">>)

\* two trials with different identifiers, one oracle entry, one placeholder
C2_Witness ==
    /\ BatchReturned /\ ParsedArray
    /\ Len(trials) = 2 /\ trials[1].nct_id # trials[2].nct_id
    /\ Len(oracle.json.items) = 1
    /\ evaluations.items[1].fit_score = Some(90)
    /\ evaluations.items[2].missing_info = Some(<<"Evaluation not completed">>)

\* C3: when the batch call fails entirely (the oracle raises, or its
\* fence-stripped text is not valid JSON), the operation returns normally,
\* for every trial in input order, an evaluation with that trial's nct_id,
\* score 40, category "weak" and missing_info "Batch evaluation failed".
C3_BatchFailureDegrades ==
    (service = "ct" /\ pc # "start" /\ pc # "raised" /\ CallFailed)
        => /\ pc = "done"
           /\ evaluations.type = "array"
           /\ Len(evaluations.items) = Len(trials)
           /\ \A i \in 1..Len(trials) :
                LET e == evaluations.items[i]
                IN /\ e.nct_id = Some(trials[i].nct_id)
                   /\ e.fit_score = Some(40)
                   /\ e.fit_category = Some("weak")
                   /\ e.missing_info = Some(<<"Batch evaluation failed">>)

\* unparseable text for two trials with different identifiers
C3_Witness ==
    /\ BatchReturned /\ oracle.status = "invalid"
    /\ Len(trials) = 2 /\ trials[1].nct_id # trials[2].nct_id
    /\ Len(evaluations.items) = 2

\* the number of entries the oracle itself supplied to the batch result
OracleEntries == IF ParsedArray THEN Len(oracle.json.items) ELSE 0

\* C4: when a single evaluation's oracle call fails or its text is not valid
\* JSON, evaluate_eligibility returns the fixed evaluation with score 30,
\* category "weak", empty criteria lists, missing_info "Unable to evaluate -
\* system error" and the manual-review explanation; every placeholder the
\* batch path synthesizes has score 40, never 30.
C4_SingleFailureIs30BatchIs40 ==
    /\ (service = "engine" /\ CallFailed)
         => /\ evaluation.type = "object"
            /\ evaluation.obj.fit_score = Some(30)
            /\ evaluation.obj.fit_category = Some("weak")
            /\ evaluation.obj.meets_criteria = Some(<<>>)
            /\ evaluation.obj.fails_criteria = Some(<<>>)
            /\ evaluation.obj.missing_info = Some(<<"Unable to evaluate - system error">>)
            /\ evaluation.obj.explanation =
                 Some("Error occurred during evaluation. Please review manually.")
    /\ BatchReturned
         => \A i \in 1..Len(evaluations.items) :
              i > OracleEntries
                => /\ evaluations.items[i].fit_score = Some(40)
                   /\ evaluations.items[i].fit_score # Some(30)

\* a failed single evaluation whose placeholder became a match of score 30
C4_Witness ==
    /\ service = "engine" /\ pc = "loop" /\ oracle.status = "invalid"
    /\ Len(matches) = 2
    /\ matches[2].fit_score = 30
    /\ matches[2].missing_info = <<"Unable to evaluate - system error">>

\* the score bands of the evaluation prompt
Band(score) ==
    IF score >= 80 /\ score <= 100 THEN "strong"
    ELSE IF score >= 50 /\ score <= 79 THEN "moderate"
    ELSE IF score >= 20 /\ score <= 49 THEN "weak"
    ELSE IF score >= 0 /\ score <= 19 THEN "ineligible"
    ELSE "none"

\* C5: every TrialMatch built from an evaluation has a fit_category that
\* agrees with the band of its fit_score, whatever the oracle replied.
C5_CategoryAgreesWithBand ==
    \A i \in 1..Len(matches) : matches[i].fit_category = Band(matches[i].fit_score)

\* a precedes-or-equals b in ascending distance, an absent distance last
DistanceOrdered(x, y) == y = None \/ (x # None /\ x[1] <= y[1])

\* C6: the list a match-and-rank operation returns is ordered by fit_score
\* descending and, among equal scores, by distance_km ascending with absent
\* distances last.
C6_RankedOrder ==
    pc = "done"
        => \A i, j \in 1..Len(result) :
             i < j => /\ result[i].fit_score >= result[j].fit_score
                      /\ result[i].fit_score = result[j].fit_score
                           => DistanceOrdered(result[i].distance_km,
                                              result[j].distance_km)

\* three ranked matches; the sort moved a nearer match ahead of one of the
\* same score that has no distance and came earlier in the input
C6_Witness ==
    /\ service = "engine" /\ pc = "done" /\ Len(result) = 3
    /\ \E i, j \in 1..3 :
         /\ i < j
         /\ result[i].fit_score = result[j].fit_score
         /\ result[i].distance_km # None /\ result[j].distance_km = None
         /\ result[i].pos > result[j].pos

\* C7: a match-and-rank operation returns at most max_results matches,
\* whatever number of studies the registry returns.
C7_AtMostMaxResults == pc = "done" => Len(result) <= max_results

\* C8: two matches that tie on fit_score and on distance_km keep, in the
\* ranked list, the relative order their trials had in the input.
C8_StableRanking ==
    pc = "done"
        => \A i, j \in 1..Len(result) :
             (/\ i < j
              /\ result[i].fit_score = result[j].fit_score
              /\ result[i].distance_km = result[j].distance_km)
                 => result[i].pos < result[j].pos

\* two tied matches behind a match the sort moved to the front
C8_Witness ==
    /\ pc = "done" /\ Len(result) = 3
    /\ result[1].pos = 3
    /\ result[2].fit_score = result[3].fit_score
    /\ result[2].distance_km = result[3].distance_km
    /\ result[2].pos = 1 /\ result[3].pos = 2

\* C9: ranking (sort, then truncation) a list that is already a ranked
\* output returns the same list in the same order.
C9_RankIdempotent == pc = "done" => Rank(service, result, max_results) = result

\* a ranked output that differs from the unranked list and holds a tie
C9_Witness ==
    /\ pc = "done" /\ Len(result) >= 2 /\ result # matches
    /\ \E i \in 1..(Len(result) - 1) :
         /\ result[i].fit_score = result[i + 1].fit_score
         /\ result[i].distance_km = result[i + 1].distance_km

\* the candidates with both coordinates present
Geocoded == { i \in 1..Len(trial_locations) :
                trial_locations[i].lat # None /\ trial_locations[i].lng # None }

DistanceTo(i) ==
    Geodesic(patient_location[1],
             <<trial_locations[i].lat[1], trial_locations[i].lng[1]>>)

\* C10: find_nearest_site returns the candidate of minimum distance among
\* the candidates with both lat and lng present, with that distance, and
\* (none, none) when the origin is absent or no candidate has both
\* coordinates; a coordinate 0 and a distance 0 are values like any other.
C10_NearestAmongGeocoded ==
    (service = "nearest" /\ pc = "returned")
        => IF patient_location = None \/ Geocoded = {}
           THEN nearest_site = None /\ distance = None
           ELSE /\ nearest_site # None /\ distance # None
                /\ \E i \in Geocoded :
                     /\ nearest_site[1] = trial_locations[i]
                     /\ distance[1] = DistanceTo(i)
                /\ \A j \in Geocoded : distance[1] <= DistanceTo(j)

\* C11: when several candidates with both coordinates present are at exactly
\* the same minimum distance from the origin, find_nearest_site returns the
\* one that comes first in the candidate list.
C11_FirstOfTiesWins ==
    (service = "nearest" /\ pc = "returned" /\ patient_location # None)
        => \A i, j \in Geocoded :
             (/\ i < j
              /\ DistanceTo(i) = DistanceTo(j)
              /\ \A k \in Geocoded : DistanceTo(i) <= DistanceTo(k)
              /\ \A k \in Geocoded : k < i => DistanceTo(i) < DistanceTo(k))
                 => nearest_site = Some(trial_locations[i])

\* C14: when the registry request fails (network error, timeout, non-2xx
\* status), search_trials returns the empty list and raises nothing.
C14_RegistryFailureIsNoTrials ==
    (service = "ct" /\ registry \in RegistryOutcomes \ {"ok"})
        => pc # "raised" /\ trials = <<>>

C14_Witness ==
    service = "ct" /\ pc = "searched" /\ registry = "bad_status" /\ trials = <<>>

\* C15: a run of the ClinicalTrialsService pipeline whose search returned no
\* trials (zero studies, or a failed retrieval) makes no evaluation call and
\* returns the empty list.
C15_NoTrialsNoEvaluation ==
    (service = "ct" /\ pc \in {"searched", "done"} /\ trials = <<>>)
        => /\ oracle = NoOracle
           /\ evaluations = JArray(<<>>)
           /\ pc = "done" => result = <<>>

C15_Witness ==
    service = "ct" /\ pc = "done" /\ registry = "ok" /\ trials = <<>>
        /\ result = <<>>

\* C16: ClinicalTrialsService.match_patient_to_trials always completes with a
\* list; no registry outcome and no oracle output surfaces as an error.
C16_CtPipelineNeverRaises == service = "ct" => pc # "raised"

\* the extractor's try block failed: the image did not open, the oracle
\* raised, its text is no JSON, or the JSON is no valid profile object
ExtractionFailed ==
    \/ response = None
    \/ ParseReply(response[1]).status # "json"
    \/ ParseReply(response[1]).json.type # "object"
    \/ ~Validates(ParseReply(response[1]).json.obj)

\* C12: neither extractor raises; when the oracle call, the parse or the
\* validation fails, the returned profile has condition "Unknown" and
\* nothing else populated.
C12_ExtractorDegradesToUnknown ==
    service \in {"text", "image"}
        => /\ pc # "raised"
           /\ (pc = "returned" /\ ExtractionFailed)
                 => profile = Some(UnknownProfile)

C12_Witness ==
    /\ service = "text" /\ pc = "returned" /\ response # None
    /\ ParseReply(response[1]).status = "invalid"
    /\ profile = Some(UnknownProfile)

\* C13: every profile an extractor returns has a non-empty condition.
C13_ConditionNeverEmpty ==
    (service \in {"text", "image"} /\ pc = "returned")
        => profile # None /\ profile[1].condition # ""

\* perform_ambient_search returned a finding
RadarReturned == service = "radar" /\ pc = "returned" /\ finding # None

\* the oracle's text after the fence tests
Stripped == StripFences(response[1].text)

\* the oracle returned a non-empty text of which neither the regex-extracted
\* object nor the whole parses as JSON
Unparseable ==
    /\ ~response[1].raised /\ response[1].text # <<>>
    /\ ~(RegexSearch(Stripped).found /\ RegexSearch(Stripped).valid)
    /\ ~JsonValid(Stripped)

\* the text left after the fences holds no object with the key "drug"
NothingExtracted == Stripped # <<>> /\ ~RegexSearch(Stripped).found

\* C17, as stated: unparseable non-empty text and zero citations give a
\* finding with found_update false and sources [].
C17_UnparseableIsNotFound ==
    (RadarReturned /\ Unparseable /\ citations = <<>>)
        => /\ finding[1].found_update = Some(FALSE)
           /\ finding[1].sources = Some(<<>>)

\* C17, amended: unparseable non-empty text and zero citations give a
\* finding with sources [] and source "Google Search" or none; found_update
\* is true, and the description the first 500 characters of the stripped
\* text, exactly when text is left after the fences and no object with the
\* key "drug" was extracted from it.
C17_UnparseableIsSynthesized ==
    (RadarReturned /\ Unparseable /\ citations = <<>>)
        => /\ finding[1].sources = Some(<<>>)
           /\ finding[1].source \in {None, Some("Google Search")}
           /\ finding[1].found_update = Some(NothingExtracted)
           /\ NothingExtracted => finding[1].description = Some(Prefix(Stripped))

C17_Witness ==
    /\ RadarReturned /\ Unparseable /\ citations = <<>>
    /\ Stripped = <<LongJunk>>
    /\ finding[1].found_update = Some(TRUE)
    /\ finding[1].description = Some(Description("text", <<LongJunk>>, DescriptionLimit))

\* C18: whenever the text is non-empty and neither the regex-extracted
\* object nor the full text parses as JSON, the finding returned is the
\* synthesized one, its description the first 500 characters of the text.
C18_LadderEndsInSynthesis ==
    (RadarReturned /\ Unparseable)
        => finding[1] = AddCitations(Synthesized(Stripped), citations)

\* C19: every finding returned has sources = all citations and source = the
\* first citation's title when a citation exists, and otherwise source =
\* "Google Search" and sources = [].
C19_SourcesFromCitations ==
    RadarReturned
        => IF citations # <<>>
           THEN /\ finding[1].sources = Some(citations)
                /\ finding[1].source = Some(citations[1].title)
           ELSE /\ finding[1].sources = Some(<<>>)
                /\ finding[1].source = Some("Google Search")

\* C20: perform_ambient_search never raises, and the finding it returns has
\* at least the keys drug and found_update.
C20_AlwaysWellFormedFinding ==
    service = "radar"
        => /\ pc # "raised"
           /\ pc = "returned"
                 => finding # None /\ finding[1].drug # None
                      /\ finding[1].found_update # None

\* C30: ClinicalTrialsService.match_patient_to_trials returns exactly one
\* TrialMatch for each trial the search returned, with that trial's nct_id
\* and the evaluation of its position: no trial is dropped or duplicated.
C30_OneMatchPerRetrievedTrial ==
    (service = "ct" /\ pc = "done")
        => /\ Len(result) = Len(trials)
           /\ \A i \in 1..Len(trials) :
                \E j \in 1..Len(result) :
                    /\ result[j].pos = i
                    /\ result[j].nct_id = trials[i].nct_id
                    /\ \A k \in 1..Len(result) : result[k].pos = i => k = j

\* no two rows of the alert table have the same (drug, title)
NoDuplicateAlerts ==
    \A i, j \in 1..Len(alert_table) :
        SameKey(alert_table[i], alert_table[j]) => i = j

\* C21: calls of save_alerts that follow one another leave at most one
\* stored alert per (drug, title): a key saved twice, in one call or in
\* successive calls, is stored once.
C21_OneAlertPerKey == service = "alerts" => NoDuplicateAlerts

C21_Witness ==
    /\ service = "alerts" /\ sessions[1].pc = "commit"
    /\ Len(sessions[1].alerts) = 2
    /\ SameKey(sessions[1].alerts[1], sessions[1].alerts[2])
    /\ Len(sessions[1].pending) = 1
    /\ Len(alert_table) = 1
    /\ ~SameKey(alert_table[1], sessions[1].alerts[1])

\* C22: across save_alerts, get_alerts and mark_alerts_as_read no stored
\* alert is deleted, no field but is_new changes, and is_new only goes from
\* true to false and only in a step of mark_alerts_as_read.
C22_AlertsOnlyMarkedRead ==
    [][/\ Len(alert_table') >= Len(alert_table)
       /\ \A i \in 1..Len(alert_table) :
            /\ [alert_table'[i] EXCEPT !.is_new = TRUE]
                 = [alert_table[i] EXCEPT !.is_new = TRUE]
            /\ alert_table'[i].is_new => alert_table[i].is_new
            /\ alert_table'[i].is_new # alert_table[i].is_new
                 => sessions' = sessions]_vars

\* an alert that was marked read is saved again
C22_Witness ==
    /\ service = "alerts" /\ sessions[1].pc = "commit"
    /\ sessions[1].alerts # <<>> /\ sessions[1].pending = <<>>
    /\ \E i \in 1..Len(alert_table) :
         ~alert_table[i].is_new /\ SameKey(alert_table[i], sessions[1].alerts[1])

\* C27: get_alerts returns all stored alerts, unread first and, among the
\* unread and among the read, by date descending.
C27_AlertsByNewThenDate ==
    (service = "alerts" /\ returned # None)
        => /\ Len(returned[1]) = Len(alert_table)
           /\ \A i \in 1..Len(alert_table) :
                \E j \in 1..Len(returned[1]) : returned[1][j] = alert_table[i]
           /\ \A i, j \in 1..Len(returned[1]) :
                i < j => /\ returned[1][i].is_new \/ ~returned[1][j].is_new
                         /\ returned[1][i].is_new = returned[1][j].is_new
                              => returned[1][i].date >= returned[1][j].date

\* C28: however concurrent save_alerts calls interleave, the table holds one
\* alert per key, and no call's duplicate check and insert are split by
\* another call's insert of the same key.
C28_ConcurrentSavesDeduplicated ==
    service = "concurrent_alerts"
        => /\ NoDuplicateAlerts
           /\ \A c \in SessionIds : \A i \in 1..Len(sessions[c].pending) :
                Count(sessions[c].pending[i], alert_table) = 0

\* the operation that produced the current state of the store
Last == returned[1]

Ran(op) == service = "store" /\ returned # None /\ Last.op = op

NoDuplicateTrials(table) ==
    \A i, j \in 1..Len(table) : table[i].nct_id = table[j].nct_id => i = j

\* C23: the store never holds two trial records with one nct_id, and an
\* ingestion that is run again on the same fetched studies (the sample-data
\* fallback included) leaves the stored trials as the first run left them
C23_ReingestionIsIdempotent ==
    [][/\ NoDuplicateTrials(trial_table')
       /\ (Ran("ingest_trials") /\ returned' # None
             /\ returned'[1].op = "ingest_trials"
             /\ returned'[1].input = Last.input)
          => trial_table' = trial_table]_vars

\* the sample trials are stored and the fallback has been run again
C23_Witness ==
    /\ Ran("ingest_trials")
    /\ Last.input = <<>>
    /\ Last.outcome = "raised"
    /\ \A k \in 1..Len(SampleTrials) : HasTrial(trial_table, SampleTrials[k])
    /\ patient_table # <<>>

SavedTrials(table, patient_id) ==
    [k \in 1..Len(LinksOf(table, patient_id)) |-> LinksOf(table, patient_id)[k].nct_id]

\* the first (up to 3) trials of a selection
FirstThree(selected_trials) ==
    [k \in 1..(IF Len(selected_trials) < 3 THEN Len(selected_trials) ELSE 3) |->
        selected_trials[k].nct_id]

Selected(patient_id) ==
    /\ returned' # None
    /\ returned'[1].op \in {"save_patient", "update_patient_trials"}
    /\ returned'[1].key = patient_id
    /\ returned'[1].outcome = "done"

\* C24: a patient never has more than 3 saved trial matches; a selection
\* submitted for the patient leaves the first (up to 3) of its trials as the
\* patient's matches, and they stay until the next selection for that
\* patient or the patient's deletion
C24_FirstThreeOfLastSelection ==
    [][\A p \in PatientIds :
          /\ Len(SavedTrials(link_table', p)) <= 3
          /\ Selected(p) => SavedTrials(link_table', p) = FirstThree(returned'[1].input)
          /\ SavedTrials(link_table', p) # SavedTrials(link_table, p)
               => \/ Selected(p)
                  \/ /\ returned' # None
                     /\ returned'[1].op = "delete_patient"
                     /\ returned'[1].key = p
                     /\ SavedTrials(link_table', p) = <<>>]_vars

\* a selection of four trials replaced a patient's earlier matches
C24_Witness ==
    /\ Ran("update_patient_trials")
    /\ Last.outcome = "done"
    /\ Len(Last.input) = 4
    /\ SavedTrials(link_table, Last.key) = FirstThree(Last.input)
    /\ \E p \in PatientIds : p # Last.key /\ Len(SavedTrials(link_table, p)) = 3

NameOf(table, patient_id) ==
    (CHOOSE row \in { table[k] : k \in 1..Len(table) } : row.patient_id = patient_id).name

\* C26: update_patient_trials on a stored patient leaves that patient with
\* the links made from the request and none of the earlier ones, and leaves
\* the patient records and every other patient's links as they were
C26_UpdateReplacesSelection ==
    [][(/\ returned' # None
        /\ returned'[1].op = "update_patient_trials"
        /\ returned'[1].outcome = "done")
       => /\ SavedTrials(link_table', returned'[1].key) = FirstThree(returned'[1].input)
          /\ patient_table' = patient_table
          /\ \A q \in PatientIds \ {returned'[1].key} :
                LinksOf(link_table', q) = LinksOf(link_table, q)]_vars

\* a patient whose profile had been edited got a new selection while
\* another patient had saved matches
C26_Witness ==
    /\ Ran("update_patient_trials")
    /\ Last.outcome = "done"
    /\ Len(Last.input) = 1
    /\ Len(LinksOf(link_table, Last.key)) = 1
    /\ NameOf(patient_table, Last.key) = "B"
    /\ \E q \in PatientIds \ {Last.key} : LinksOf(link_table, q) # <<>>

KeyedOperations ==
    {"delete_patient", "update_patient_trials", "update_patient_profile",
     "get_chart_data", "get_patient_trials", "get_trial"}

\* C25: a keyed operation on a patient or trial identifier that is not
\* stored reports not-found to its caller and leaves the three tables as
\* they were
C25_UnknownKeyIsNotFound ==
    [][(/\ returned' # None
        /\ returned'[1].op \in KeyedOperations
        /\ ~returned'[1].known)
       => /\ returned'[1].outcome = "not_found"
          /\ UNCHANGED <<patient_table, trial_table, link_table>>]_vars

\* C29: however concurrent save_patient and update_patient_trials requests
\* that select one trial not yet stored interleave, no request fails, a
\* completed request has its patient and the trials it selected stored, and
\* the store holds one trial record per nct_id
C29_ConcurrentSelectionsAllSucceed ==
    service = "concurrent_store" =>
       /\ NoDuplicateTrials(trial_table)
       /\ \A c \in SessionIds :
             /\ sessions[c].pc # "raised"
             /\ sessions[c].pc = "done" =>
                   /\ HasPatient(patient_table, sessions[c].patient_id)
                   /\ \A k \in 1..Len(FirstThree(sessions[c].selection)) :
                         HasTrial(trial_table, FirstThree(sessions[c].selection)[k])

====
